---- MODULE Spec2Model ----
(***************************************************************************)
(* Model of the event-driven replay engine of                              *)
(* src/examples/backtest_framework.py: BacktestEngine.run_backtest, its    *)
(* filter pipeline, BacktestEngine._simulate_trade, the regime risk        *)
(* calculator, DataLoader.get_nearest_context and                          *)
(* PerformanceAnalytics.calculate_metrics.                                 *)
(*                                                                         *)
(* Timestamps are whole hours counted from 00:00 UTC of start_date.        *)
(* Prices are whole points.  r_multiple, pnl and equity are fixed-point    *)
(* numbers with RScale units per 1.0.                                      *)
(***************************************************************************)
EXTENDS Integers, Sequences, FiniteSets, TLC

\* ------------------------------------------------------------------------
\* Bounds of the explored inputs
\* ------------------------------------------------------------------------
\* hour of the first tick of the time grid
FirstHour == 10
\* hours between two ticks of the time grid
TickHours == 4
\* last tick of the time grid (ticks are 0..MaxTick)
MaxTick == 3
\* signals handed to one run
MaxSignals == 2
\* bars of a price series whose range leaves the open price
MaxActive == 1
\* calls of run_backtest on the engine
MaxRuns == 1
\* further calls of run_backtest that repeat the first call's inputs
Reruns == 1

\* ------------------------------------------------------------------------
\* Program constants
\* ------------------------------------------------------------------------
RScale == 100
start_date == 0
initial_capital == 100
risk_per_trade == 5
low_vol_threshold == 25
high_vol_threshold == 35
sl_low == 200
sl_med == 250
sl_high == 350
reward_risk_ratio == 2
default_vol == 30
max_bars == 10080
allowed_sessions == {"London", "New_York"}

None == <<>>
Some(x) == <<x>>

Abs(x) == IF x < 0 THEN -x ELSE x
Min(a, b) == IF a < b THEN a ELSE b

\* ------------------------------------------------------------------------
\* Input spaces
\* ------------------------------------------------------------------------
TickTime(k) == FirstHour + TickHours * k
Times == {TickTime(k) : k \in 0..MaxTick}
DirectionChoices == {"LONG", "SHORT"}
CooldownChoices == {0, TickHours}
EndDateChoices == {0, 1}
ConfirmationChoices == {"None", "Oracle"}
Shapes == {"quiet", "up", "down", "both"}
BasePrice == 1000
Swing == 1000

\* a bar of the price series at timestamp ts: the open rises with time, the
\* range reaches Swing points above and/or below the open
Bar(ts, shape) ==
  [ts   |-> ts,
   Open |-> BasePrice + ts,
   High |-> BasePrice + ts + (IF shape \in {"up", "both"} THEN Swing ELSE 0),
   Low  |-> BasePrice + ts - (IF shape \in {"down", "both"} THEN Swing ELSE 0)]

\* price series: bars on the ticks 1..n, strictly increasing timestamps
PriceChoices ==
  UNION {
    {[i \in 1..n |-> Bar(TickTime(i), sh[i])] :
       sh \in {s \in [1..n -> Shapes] :
                 Cardinality({i \in 1..n : s[i] # "quiet"}) <= MaxActive}}
    : n \in 0..MaxTick}

Snap(ts, fields) == [ts |-> ts, fields |-> fields]
WithVol(v) == [f \in {"vol"} |-> v]
NoFields == [f \in {} |-> 0]

\* context_data: a mapping from source name to snapshot series
ContextChoices ==
  { [n \in {} |-> <<>>],
    [n \in {"garch"} |-> <<Snap(TickTime(0), WithVol(20)),
                           Snap(TickTime(2), NoFields)>>],
    [n \in {"garch"} |-> <<Snap(TickTime(1), WithVol(40))>>] }

\* ------------------------------------------------------------------------
\* Pure functions of the program
\* ------------------------------------------------------------------------
\* str.upper() on the direction strings the program meets
Upper(d) ==
  CASE d \in {"LONG", "long", "Long"} -> "LONG"
    [] d \in {"SHORT", "short", "Short"} -> "SHORT"
    [] d \in {"BUY", "buy", "Buy"} -> "BUY"
    [] d \in {"SELL", "sell", "Sell"} -> "SELL"
    [] OTHER -> d

IsLong(direction) == Upper(direction) \in {"LONG", "BUY"}

\* timestamp.hour
HourOf(ts) == ts % 24

\* variant: the London session opens one hour late
get_session_LateLondon(ts) ==
  LET hour == HourOf(ts) IN
  IF 0 <= hour /\ hour <= 8 THEN "Asian"
  ELSE IF 8 < hour /\ hour < 13 THEN "London"
  ELSE IF 13 <= hour /\ hour < 22 THEN "New_York"
  ELSE "Off_Hours"

\* BacktestEngine.get_session
get_session(ts) ==
  LET hour == HourOf(ts) IN
  IF 0 <= hour /\ hour < 8 THEN "Asian"
  ELSE IF 8 <= hour /\ hour < 13 THEN "London"
  ELSE IF 13 <= hour /\ hour < 22 THEN "New_York"
  ELSE "Off_Hours"

\* float('nan'), the value of a frame cell that no record filled; held as a
\* number no volatility reading takes
NaN == -1

\* x < y on floats: False when either side is nan
FloatLess(x, y) == x # NaN /\ y # NaN /\ x < y

\* variant: a volatility equal to a threshold stays in the lower regime
get_volatility_regime_Closed(garch_vol) ==
  IF garch_vol <= low_vol_threshold THEN "LOW"
  ELSE IF garch_vol <= high_vol_threshold THEN "MEDIUM"
  ELSE "HIGH"

\* GARCHRegimeRiskCalculator.get_volatility_regime
get_volatility_regime(garch_vol) ==
  IF FloatLess(garch_vol, low_vol_threshold) THEN "LOW"
  ELSE IF FloatLess(garch_vol, high_vol_threshold) THEN "MEDIUM"
  ELSE "HIGH"

calculate_stops(entry_price, direction, garch_vol) ==
  LET regime == get_volatility_regime(garch_vol)
      sl_distance == IF regime = "LOW" THEN sl_low
                     ELSE IF regime = "MEDIUM" THEN sl_med
                     ELSE sl_high
      tp_distance == sl_distance * reward_risk_ratio
  IN IF IsLong(direction)
     THEN [sl_price |-> entry_price - sl_distance,
           tp_price |-> entry_price + tp_distance]
     ELSE [sl_price |-> entry_price + sl_distance,
           tp_price |-> entry_price - tp_distance]

\* a context series is the list of records its frame is built from; the
\* frame (pd.DataFrame(records)) has a column for every field any record
\* has, and a row holds nan in the columns its record has no field for
Columns(df) == UNION {DOMAIN df[k].fields : k \in 1..Len(df)}

\* row.to_dict(): every column of the frame
RowDict(df, row) ==
  [c \in Columns(df) |-> IF c \in DOMAIN row.fields THEN row.fields[c] ELSE NaN]

\* variant: the last row of the frame once any row is at or before timestamp
get_nearest_context_LastRow(df, timestamp) ==
  LET masked == SelectSeq(df, LAMBDA row : row.ts <= timestamp) IN
  IF Len(df) = 0 THEN None
  ELSE IF Len(masked) = 0 THEN None
  ELSE Some(RowDict(df, df[Len(df)]))

\* DataLoader.get_nearest_context: the last row at or before timestamp
get_nearest_context(df, timestamp) ==
  LET masked == SelectSeq(df, LAMBDA row : row.ts <= timestamp) IN
  IF Len(df) = 0 THEN None
  ELSE IF Len(masked) = 0 THEN None
  ELSE Some(RowDict(df, masked[Len(masked)]))

\* context = {name: get_nearest_context(df, signal_time)}
FuseContext(context_data, signal_time) ==
  [n \in DOMAIN context_data |-> get_nearest_context(context_data[n], signal_time)]

ContextMissing(context) ==
  ("garch" \notin DOMAIN context) \/ context["garch"] = None

\* context['garch'].get('vol', 30.0)
GarchVol(context) ==
  LET g == context["garch"][1] IN
  IF "vol" \in DOMAIN g THEN g["vol"] ELSE default_vol

\* price_data[price_data.index > t]
BarsAfter(bars, t) == SelectSeq(bars, LAMBDA b : b.ts > t)

\* variant: the ratio taken the wrong way round
RewardRisk_Inverted(entry_price, sl_price, tp_price) ==
  (Abs(sl_price - entry_price) * RScale) \div Abs(tp_price - entry_price)

\* abs(tp_price - entry_price) / abs(sl_price - entry_price)
RewardRisk(entry_price, sl_price, tp_price) ==
  (Abs(tp_price - entry_price) * RScale) \div Abs(sl_price - entry_price)

\* variant: the target is tested before the stop
RECURSIVE ScanBars_TargetFirst(_, _, _, _, _, _)
ScanBars_TargetFirst(future_bars, i, entry_price, direction, sl_price, tp_price) ==
  IF i > Len(future_bars) THEN None
  ELSE
    LET bar == future_bars[i]
        sl_hit == IF IsLong(direction) THEN bar.Low <= sl_price
                  ELSE bar.High >= sl_price
        tp_hit == IF IsLong(direction) THEN bar.High >= tp_price
                  ELSE bar.Low <= tp_price
    IN IF tp_hit
         THEN Some([exit_type |-> "TP", exit_time |-> bar.ts,
                    exit_price |-> tp_price,
                    r_multiple |-> RewardRisk(entry_price, sl_price, tp_price)])
       ELSE IF sl_hit
         THEN Some([exit_type |-> "SL", exit_time |-> bar.ts,
                    exit_price |-> sl_price, r_multiple |-> -RScale])
       ELSE ScanBars_TargetFirst(future_bars, i + 1, entry_price, direction,
                                 sl_price, tp_price)

\* the loop of _simulate_trade over future_bars, from position i
RECURSIVE ScanBars(_, _, _, _, _, _)
ScanBars(future_bars, i, entry_price, direction, sl_price, tp_price) ==
  IF i > Len(future_bars) THEN None
  ELSE
    LET bar == future_bars[i]
        sl_hit == IF IsLong(direction) THEN bar.Low <= sl_price
                  ELSE bar.High >= sl_price
        tp_hit == IF IsLong(direction) THEN bar.High >= tp_price
                  ELSE bar.Low <= tp_price
    IN IF sl_hit /\ tp_hit
         THEN Some([exit_type |-> "SL", exit_time |-> bar.ts,
                    exit_price |-> sl_price, r_multiple |-> -RScale])
       ELSE IF sl_hit
         THEN Some([exit_type |-> "SL", exit_time |-> bar.ts,
                    exit_price |-> sl_price, r_multiple |-> -RScale])
       ELSE IF tp_hit
         THEN Some([exit_type |-> "TP", exit_time |-> bar.ts,
                    exit_price |-> tp_price,
                    r_multiple |-> RewardRisk(entry_price, sl_price, tp_price)])
       ELSE ScanBars(future_bars, i + 1, entry_price, direction, sl_price, tp_price)

\* variant: every bar after the entry is scanned, whatever the window
simulate_trade_Unlimited(bars, entry_time, entry_price, direction, sl_price, tp_price, maxbars) ==
  ScanBars(BarsAfter(bars, entry_time), 1, entry_price, direction, sl_price, tp_price)

\* BacktestEngine._simulate_trade
simulate_trade(bars, entry_time, entry_price, direction, sl_price, tp_price, maxbars) ==
  LET after == BarsAfter(bars, entry_time)
      future_bars == SubSeq(after, 1, Min(maxbars, Len(after)))
  IN ScanBars(future_bars, 1, entry_price, direction, sl_price, tp_price)

\* variant: a bar stamped with signal_time itself is taken
EntryBar_Inclusive(bars, signal_time) ==
  LET after == SelectSeq(bars, LAMBDA b : b.ts >= signal_time) IN
  IF Len(after) = 0 THEN None ELSE Some(after[1])

\* first bar strictly after signal_time, None for the IndexError branch
EntryBar(bars, signal_time) ==
  LET after == BarsAfter(bars, signal_time) IN
  IF Len(after) = 0 THEN None ELSE Some(after[1])

\* variant: a signal exactly cooldown_delta later is still blocked
CooldownActive_Inclusive(ltt, signal_time, cooldown_delta) ==
  ltt # None /\ (signal_time - ltt[1]) <= cooldown_delta

\* last_trade_time and (signal_time - last_trade_time) < cooldown_delta
CooldownActive(ltt, signal_time, cooldown_delta) ==
  ltt # None /\ (signal_time - ltt[1]) < cooldown_delta

\* variant: the answer is read although no oracle is attached
Rejected_WithoutOracle(conf, answer) == ~answer

\* if self.confirmation: if not confirm_signal(...): reject
Rejected(conf, answer) == conf # "None" /\ ~answer

\* signals[(timestamp >= start_ts) & (timestamp <= end_ts)]
InWindow(timestamp, startd, endd) ==
  timestamp >= 24 * startd /\ timestamp <= 24 * endd

\* self.filter_stats[key] += 1
Bump(stats, key) == [stats EXCEPT ![key] = @ + 1]

ZeroStats ==
  [total_signals |-> 0, cooldown_blocked |-> 0, session_blocked |-> 0,
   no_entry_bar |-> 0, no_context |-> 0, not_confirmed |-> 0,
   trades_executed |-> 0]

\* the Trade(...) record built from a resolved simulation
MakeTrade(sig, session, entry_bar, stops, garch_vol, res, pnl, eq) ==
  [signal_time |-> sig.timestamp,
   entry_time  |-> entry_bar.ts,
   session     |-> session,
   direction   |-> sig.direction,
   entry_price |-> entry_bar.Open,
   sl_price    |-> stops.sl_price,
   tp_price    |-> stops.tp_price,
   exit_type   |-> res.exit_type,
   exit_time   |-> res.exit_time,
   exit_price  |-> res.exit_price,
   pnl         |-> pnl,
   r_multiple  |-> res.r_multiple,
   equity      |-> eq,
   garch_vol   |-> garch_vol]

\* pnl = self.config.risk_per_trade * r_multiple
Pnl(r_multiple) == risk_per_trade * r_multiple

\* variant: the running equity is overwritten, not accumulated
AddPnl_Overwrite(eq, pnl) == pnl

\* equity += pnl
AddPnl(eq, pnl) == eq + pnl

\* the body of "if trade_result:": the trade is recorded
Resolved(res, sig, session, entry_bar, stops, garch_vol, st) ==
  LET pnl == Pnl(res.r_multiple)
      eq  == AddPnl(st.equity, pnl)
  IN [equity          |-> eq,
      trades          |-> Append(st.trades,
                           MakeTrade(sig, session, entry_bar, stops,
                                     garch_vol, res, pnl, eq)),
      equity_curve    |-> Append(st.equity_curve, <<sig.timestamp, eq>>),
      filter_stats    |-> Bump(st.filter_stats, "trades_executed"),
      last_trade_time |-> Some(sig.timestamp)]

\* variant: trades_executed is counted outside the "if trade_result:"
ApplyResult_CountsUnresolved(trade_result, sig, session, entry_bar, stops, garch_vol, st) ==
  IF trade_result # None
  THEN Resolved(trade_result[1], sig, session, entry_bar, stops, garch_vol, st)
  ELSE [st EXCEPT !.filter_stats = Bump(@, "trades_executed")]

\* variant: last_trade_time is set outside the "if trade_result:"
ApplyResult_CooldownOnUnresolved(trade_result, sig, session, entry_bar, stops, garch_vol, st) ==
  IF trade_result # None
  THEN Resolved(trade_result[1], sig, session, entry_bar, stops, garch_vol, st)
  ELSE [st EXCEPT !.last_trade_time = Some(sig.timestamp)]

\* the engine state after "if trade_result:" (run_backtest, step 7)
ApplyResult(trade_result, sig, session, entry_bar, stops, garch_vol, st) ==
  IF trade_result # None
  THEN Resolved(trade_result[1], sig, session, entry_bar, stops, garch_vol, st)
  ELSE st

\* ------------------------------------------------------------------------
\* State
\* ------------------------------------------------------------------------
VARIABLES
  pc,               \* "idle", "running" (inside run_backtest) or "done"
  runs,             \* calls of run_backtest so far
  cooldown_hours,   \* config.cooldown_hours
  end_date,         \* config.end_date, in days after start_date
  confirmation,     \* "None" or "Oracle": the optional SignalConfirmation
  price_data,       \* the price frame handed to run_backtest
  context_data,     \* the context frames handed to run_backtest
  equity,           \* local of run_backtest
  last_trade_time,  \* local of run_backtest
  trades,           \* self.trades
  equity_curve,     \* self.equity_curve
  filter_stats,     \* self.filter_stats
  sig_count,        \* rows of the signal frame consumed so far
  order,            \* the signal frame: "sorted" by timestamp (as load_signals
                    \* returns it); or "any" frame, which turns "inverted"
                    \* once a row is older than the row before it
  last,             \* the latest row consumed: its timestamp, its outcome,
                    \* the oracle's answer if it was asked, and the direction
                    \* if step 6 read it
  calc,             \* the latest direct call of a function of the module
                    \* from outside a run: its name, arguments and result
  replay            \* when the caller repeats its first call of run_backtest:
                    \* the rows of the signal frame (with the oracle's answers)
                    \* and what the first call returned

vars == <<pc, runs, cooldown_hours, end_date, confirmation, price_data,
          context_data, equity, last_trade_time, trades, equity_curve,
          filter_stats, sig_count, order, last, calc, replay>>

config == <<cooldown_hours, end_date, confirmation>>
inputs == <<price_data, context_data>>
engine == <<equity, last_trade_time, trades, equity_curve, filter_stats>>

Signals == [timestamp : Times, direction : DirectionChoices]

NoCalc == [fn |-> "none", args |-> <<>>, out |-> <<>>]

\* the caller does not repeat calls / is about to make the call it will repeat
NoReplay == [on |-> FALSE, rows |-> <<>>, result |-> None]
FirstCall == [on |-> TRUE, rows |-> <<>>, result |-> None]

\* the row handed to the engine is the row the repeated frame holds at this
\* position, and the deterministic oracle answers as it did before
SameRow(sig, confirm) ==
  (replay.on /\ runs > 1) =>
    /\ sig_count < Len(replay.rows)
    /\ LET row == replay.rows[sig_count + 1] IN
       /\ row.timestamp = sig.timestamp
       /\ row.direction = sig.direction
       /\ (confirm # "not_called" /\ row.confirm # "not_called") =>
            confirm = row.confirm

NoEvent ==
  [signal_time |-> 0, outcome |-> "none", confirm |-> "not_called", direction |-> "-"]
Event(sig, outcome, confirm, direction) ==
  [signal_time |-> sig.timestamp, outcome |-> outcome, confirm |-> confirm,
   direction |-> direction]
\* what the confirmation gate saw on a row that reached it
Asked(conf, answer) ==
  IF conf = "None" THEN "not_called" ELSE IF answer THEN "accepted" ELSE "rejected"

\* BacktestEngine.__init__, and the data set the runs are given
Init ==
  /\ pc = "idle"
  /\ runs = 0
  /\ cooldown_hours \in CooldownChoices
  /\ end_date \in EndDateChoices
  /\ confirmation \in ConfirmationChoices
  /\ price_data \in PriceChoices
  /\ context_data \in ContextChoices
  /\ equity = 0
  /\ last_trade_time = None
  /\ trades = <<>>
  /\ equity_curve = <<>>
  /\ filter_stats = <<>>
  /\ sig_count = 0
  /\ order = "sorted"
  /\ last = NoEvent
  /\ calc = NoCalc
  /\ replay = NoReplay

\* variant: the cooldown of the previous call survives into the next call
StartRun_KeepsCooldown ==
  /\ pc \in {"idle", "done"}
  /\ runs < MaxRuns + (IF replay.on THEN Reruns ELSE 0)
  /\ pc' = "running"
  /\ runs' = runs + 1
  /\ equity' = initial_capital * RScale
  /\ last_trade_time' = last_trade_time
  /\ trades' = <<>>
  /\ equity_curve' = << <<24 * start_date, initial_capital * RScale>> >>
  /\ filter_stats' = ZeroStats
  /\ sig_count' = 0
  /\ order' = (IF order = "sorted" THEN "sorted" ELSE "any")
  /\ last' = NoEvent
  /\ UNCHANGED <<config, inputs, calc, replay>>

\* run_backtest up to the loop: "Initialize state"
StartRun ==
  /\ pc \in {"idle", "done"}
  /\ runs < MaxRuns + (IF replay.on THEN Reruns ELSE 0)
  /\ pc' = "running"
  /\ runs' = runs + 1
  /\ equity' = initial_capital * RScale
  /\ last_trade_time' = None
  /\ trades' = <<>>
  /\ equity_curve' = << <<24 * start_date, initial_capital * RScale>> >>
  /\ filter_stats' = ZeroStats
  /\ sig_count' = 0
  /\ order' = (IF order = "sorted" THEN "sorted" ELSE "any")
  /\ last' = NoEvent
  /\ UNCHANGED <<config, inputs, calc, replay>>

\* the next row of the signal frame
NextRow(sig) ==
  /\ pc = "running"
  /\ sig_count < MaxSignals
  /\ order = "sorted" => sig.timestamp >= last.signal_time

Consume(sig, outcome, confirm, direction) ==
  /\ SameRow(sig, confirm)
  /\ replay' = (IF replay.on /\ runs = 1
                THEN [replay EXCEPT !.rows =
                        Append(@, [timestamp |-> sig.timestamp,
                                   direction |-> sig.direction,
                                   confirm   |-> confirm])]
                ELSE replay)
  /\ sig_count' = sig_count + 1
  /\ order' = (IF order # "sorted" /\ sig.timestamp < last.signal_time
               THEN "inverted" ELSE order)
  /\ last' = Event(sig, outcome, confirm, direction)
  /\ UNCHANGED <<pc, runs, config, inputs, calc>>

\* a row outside [start_ts, end_ts] is dropped before the loop
DateFiltered(sig) ==
  /\ NextRow(sig)
  /\ ~InWindow(sig.timestamp, start_date, end_date)
  /\ Consume(sig, "filtered", "not_called", "-")
  /\ UNCHANGED engine

\* the row enters the loop body
Enters(sig) ==
  /\ NextRow(sig)
  /\ InWindow(sig.timestamp, start_date, end_date)

Reject(sig, key, confirm) ==
  /\ filter_stats' = Bump(Bump(filter_stats, "total_signals"), key)
  /\ Consume(sig, key, confirm, "-")
  /\ UNCHANGED <<equity, last_trade_time, trades, equity_curve>>

PassCooldown(sig) ==
  ~CooldownActive(last_trade_time, sig.timestamp, cooldown_hours)
PassSession(sig) ==
  PassCooldown(sig) /\ get_session(sig.timestamp) \in allowed_sessions
PassEntryBar(sig) ==
  PassSession(sig) /\ EntryBar(price_data, sig.timestamp) # None
PassContext(sig) ==
  PassEntryBar(sig) /\ ~ContextMissing(FuseContext(context_data, sig.timestamp))
PassConfirmation(sig, answer) ==
  PassContext(sig) /\ ~Rejected(confirmation, answer)

\* 1. Cooldown Check
CooldownBlocked(sig) ==
  /\ Enters(sig)
  /\ ~PassCooldown(sig)
  /\ Reject(sig, "cooldown_blocked", "not_called")

\* variant: the session filter runs before the cooldown check
SessionBlocked_First(sig) ==
  /\ Enters(sig)
  /\ get_session(sig.timestamp) \notin allowed_sessions
  /\ Reject(sig, "session_blocked", "not_called")

\* 2. Session Filter
SessionBlocked(sig) ==
  /\ Enters(sig)
  /\ PassCooldown(sig) /\ ~PassSession(sig)
  /\ Reject(sig, "session_blocked", "not_called")

\* 3. Get Entry Bar
NoEntryBar(sig) ==
  /\ Enters(sig)
  /\ PassSession(sig) /\ ~PassEntryBar(sig)
  /\ Reject(sig, "no_entry_bar", "not_called")

\* 4. Load Context
NoContext(sig) ==
  /\ Enters(sig)
  /\ PassEntryBar(sig) /\ ~PassContext(sig)
  /\ Reject(sig, "no_context", "not_called")

\* 5. Signal Confirmation
NotConfirmed(sig, answer) ==
  /\ Enters(sig)
  /\ PassContext(sig) /\ ~PassConfirmation(sig, answer)
  /\ Reject(sig, "not_confirmed", Asked(confirmation, answer))

\* 6. Calculate SL/TP and 7. Simulate Trade Outcome, for a row past gate 5
StopsFor(sig) ==
  LET entry_bar == EntryBar(price_data, sig.timestamp)[1]
      garch_vol == GarchVol(FuseContext(context_data, sig.timestamp))
  IN calculate_stops(entry_bar.Open, sig.direction, garch_vol)

ResultFor(sig) ==
  LET entry_bar == EntryBar(price_data, sig.timestamp)[1]
      stops == StopsFor(sig)
  IN simulate_trade(price_data, entry_bar.ts, entry_bar.Open, sig.direction,
                    stops.sl_price, stops.tp_price, max_bars)

Record(sig) ==
  LET entry_bar == EntryBar(price_data, sig.timestamp)[1]
      garch_vol == GarchVol(FuseContext(context_data, sig.timestamp))
      st == [equity |-> equity, trades |-> trades, equity_curve |-> equity_curve,
             filter_stats |-> Bump(filter_stats, "total_signals"),
             last_trade_time |-> last_trade_time]
      new == ApplyResult(ResultFor(sig), sig, get_session(sig.timestamp),
                         entry_bar, StopsFor(sig), garch_vol, st)
  IN /\ equity' = new.equity
     /\ trades' = new.trades
     /\ equity_curve' = new.equity_curve
     /\ filter_stats' = new.filter_stats
     /\ last_trade_time' = new.last_trade_time

\* the simulation resolves: the trade is recorded
ExecuteTrade(sig, answer) ==
  /\ Enters(sig)
  /\ PassConfirmation(sig, answer)
  /\ ResultFor(sig) # None
  /\ Record(sig)
  /\ Consume(sig, "executed", Asked(confirmation, answer), sig.direction)

\* the simulation returns None: nothing is recorded
UnresolvedTrade(sig, answer) ==
  /\ Enters(sig)
  /\ PassConfirmation(sig, answer)
  /\ ResultFor(sig) = None
  /\ Record(sig)
  /\ Consume(sig, "unresolved", Asked(confirmation, answer), sig.direction)

\* the loop ends; run_backtest returns trades, equity_curve, filter_stats
FinishRun ==
  /\ pc = "running"
  /\ (replay.on /\ runs > 1) => sig_count = Len(replay.rows)
  /\ pc' = "done"
  /\ replay' = (IF replay.on /\ runs = 1
                THEN [replay EXCEPT !.result =
                        Some([trades |-> trades, equity_curve |-> equity_curve,
                              filter_stats |-> filter_stats])]
                ELSE replay)
  /\ UNCHANGED <<runs, config, inputs, engine, sig_count, order, last, calc>>

Next ==
  \/ StartRun
  \/ \E sig \in Signals : DateFiltered(sig)
  \/ \E sig \in Signals : CooldownBlocked(sig)
  \/ \E sig \in Signals : SessionBlocked(sig)
  \/ \E sig \in Signals : NoEntryBar(sig)
  \/ \E sig \in Signals : NoContext(sig)
  \/ \E sig \in Signals, answer \in BOOLEAN : NotConfirmed(sig, answer)
  \/ \E sig \in Signals, answer \in BOOLEAN : ExecuteTrade(sig, answer)
  \/ \E sig \in Signals, answer \in BOOLEAN : UnresolvedTrade(sig, answer)
  \/ FinishRun

Spec == Init /\ [][Next]_vars

\* ------------------------------------------------------------------------
\* Properties
\* ------------------------------------------------------------------------
RECURSIVE SumOver(_, _)
SumOver(stats, keys) ==
  IF keys = {} THEN 0
  ELSE LET k == CHOOSE x \in keys : TRUE
       IN stats[k] + SumOver(stats, keys \ {k})

InRun == pc \in {"running", "done"}

\* a step of the loop body: one row counted in total_signals
Processed ==
  /\ pc = "running"
  /\ pc' = "running"
  /\ filter_stats'.total_signals = filter_stats.total_signals + 1

Bumped(key) == filter_stats'[key] = filter_stats[key] + 1

OnlyCounts(key) ==
  /\ filter_stats' = Bump(Bump(filter_stats, "total_signals"), key)
  /\ UNCHANGED <<equity, last_trade_time, trades, equity_curve>>

\* the row consumed by the step, as far as the gates read it
RowOf(ev) ==
  [timestamp |-> ev.signal_time,
   direction |-> IF ev.direction = "-" THEN "LONG" ELSE ev.direction]

CrossesStop(bar, tr) ==
  IF tr.direction = "LONG" THEN bar.Low <= tr.sl_price ELSE bar.High >= tr.sl_price
CrossesTarget(bar, tr) ==
  IF tr.direction = "LONG" THEN bar.High >= tr.tp_price ELSE bar.Low <= tr.tp_price

\* positions of the bars after the entry that cross the stop or the target
Crossings(tr) ==
  {k \in 1..Len(price_data) :
     /\ price_data[k].ts > tr.entry_time
     /\ CrossesStop(price_data[k], tr) \/ CrossesTarget(price_data[k], tr)}

FirstCrossing(tr) ==
  CHOOSE k \in Crossings(tr) : \A j \in Crossings(tr) : k <= j

\* C1: after any run, total_signals equals the sum of all the other counters
\* of filter_stats: every processed signal is accounted for by exactly one
\* counter, a signal whose simulation stays unresolved included.
C1_TotalAccounted ==
  InRun =>
    filter_stats.total_signals =
      SumOver(filter_stats, DOMAIN filter_stats \ {"total_signals"})

\* C2: at most one position is open at a time: a later trade of the trade
\* list never enters before an earlier trade has exited.
C2_OnePositionAtATime ==
  \A i, j \in 1..Len(trades) :
    i < j => trades[j].entry_time >= trades[i].exit_time

\* C3: the trade list satisfies the equity chain: every pnl is
\* risk_per_trade * r_multiple, the first equity is initial_capital + pnl,
\* every later equity is the previous trade's equity + pnl, and the running
\* equity is the last trade's equity whatever was rejected or left unresolved
\* since.
C3_EquityChain ==
  InRun =>
    /\ \A i \in 1..Len(trades) :
         /\ trades[i].pnl = risk_per_trade * trades[i].r_multiple
         /\ trades[i].equity =
              (IF i = 1 THEN initial_capital * RScale ELSE trades[i - 1].equity)
              + trades[i].pnl
    /\ equity = IF trades = <<>> THEN initial_capital * RScale
                ELSE trades[Len(trades)].equity

C3_Witness ==
  /\ Len(trades) = 2
  /\ trades[1].pnl > 0
  /\ trades[2].pnl < 0

\* C4: at every point of a run, len(trades) = filter_stats['trades_executed'].
C4_TradesCounted ==
  InRun => Len(trades) = filter_stats.trades_executed

C4_Witness ==
  /\ InRun
  /\ Len(trades) = 1
  /\ filter_stats.total_signals = 2
  /\ last.outcome \in {"cooldown_blocked", "unresolved"}

\* C5: a processed signal is rejected with cooldown_blocked, nothing else
\* changing, exactly when a trade was executed before in this run and
\* signal_time - (signal_time of the latest trade) < cooldown; so a signal
\* exactly cooldown later is not blocked and the signal_times of consecutive
\* trades are at least cooldown apart.
C5_CooldownGate ==
  [][Processed =>
       LET t == last'.signal_time
           inside ==
             /\ trades # <<>>
             /\ t - trades[Len(trades)].signal_time < cooldown_hours
       IN /\ Bumped("cooldown_blocked") <=> inside
          /\ Bumped("cooldown_blocked") => OnlyCounts("cooldown_blocked")
          /\ \A i \in 2..Len(trades') :
               trades'[i].signal_time - trades'[i - 1].signal_time >= cooldown_hours
    ]_vars

\* a trade, then a signal inside the cooldown: blocked
C5_Witness ==
  /\ cooldown_hours > 0
  /\ Len(trades) = 1
  /\ last.outcome = "cooldown_blocked"
  /\ last.signal_time - trades[1].signal_time < cooldown_hours

\* C6: when the first bar after the entry that crosses a level crosses both
\* the stop and the target, the trade exits at that bar by the stop: 'SL',
\* r_multiple -1.0, exit price the stop price; for LONG and for SHORT.
C6_StopWinsTie ==
  \A i \in 1..Len(trades) :
    LET tr == trades[i] IN
    /\ Crossings(tr) # {}
    /\ LET bar == price_data[FirstCrossing(tr)] IN
       (CrossesStop(bar, tr) /\ CrossesTarget(bar, tr)) =>
         /\ tr.exit_type = "SL"
         /\ tr.r_multiple = -RScale
         /\ tr.exit_price = tr.sl_price
         /\ tr.exit_time = bar.ts

TiedExit(tr) ==
  /\ Crossings(tr) # {}
  /\ CrossesStop(price_data[FirstCrossing(tr)], tr)
  /\ CrossesTarget(price_data[FirstCrossing(tr)], tr)

C6_Witness ==
  /\ \E i \in 1..Len(trades) : trades[i].direction = "LONG" /\ TiedExit(trades[i])
  /\ \E i \in 1..Len(trades) : trades[i].direction = "SHORT" /\ TiedExit(trades[i])

NothingCrossed(sig) ==
  LET entry_bar == EntryBar(price_data, sig.timestamp)[1]
      stops == StopsFor(sig)
      probe == [direction |-> sig.direction, entry_time |-> entry_bar.ts,
                sl_price |-> stops.sl_price, tp_price |-> stops.tp_price]
      window == {k \in 1..Len(price_data) :
                   /\ price_data[k].ts > entry_bar.ts
                   /\ Cardinality({j \in 1..k :
                        price_data[j].ts > entry_bar.ts}) <= max_bars}
  IN Crossings(probe) \cap window = {}

\* C8: when the simulation of a signal that passed the five gates finds
\* neither stop nor target crossed within the lookahead window, no trade is
\* recorded and last_trade_time, equity, trades and equity_curve are left
\* unchanged, so the next signal meets the cooldown of the previous executed
\* trade (or none) as if the unresolved signal had not occurred.
C8_UnresolvedLeavesNoTrace ==
  [][(Processed /\ last'.direction # "-" /\ NothingCrossed(RowOf(last'))) =>
       /\ UNCHANGED <<equity, last_trade_time, trades, equity_curve>>
       /\ filter_stats' = Bump(filter_stats, "total_signals")
       /\ \A t \in Times :
            CooldownActive(last_trade_time', t, cooldown_hours)
              <=> CooldownActive(last_trade_time, t, cooldown_hours)
    ]_vars

\* a trade was executed, and a later signal stays unresolved
C8_Witness ==
  /\ last.outcome = "unresolved"
  /\ Len(trades) = 1
  /\ last_trade_time = Some(trades[1].signal_time)
  /\ last.signal_time > trades[1].signal_time

\* C9: without an oracle every signal reaching gate 5 is treated as
\* confirmed (it goes on to step 6, not_confirmed never moves); with an
\* oracle, a signal it refuses increments not_confirmed by one, creates no
\* trade and changes nothing else but total_signals.
C9_ConfirmationGate ==
  [][Processed =>
       LET reached == PassContext(RowOf(last')) IN
       /\ (confirmation = "None" /\ reached) =>
            last'.direction # "-" /\ ~Bumped("not_confirmed")
       /\ (confirmation = "Oracle" /\ reached) =>
            /\ last'.confirm \in {"accepted", "rejected"}
            /\ last'.confirm = "rejected" <=> Bumped("not_confirmed")
            /\ last'.confirm = "accepted" <=> last'.direction # "-"
       /\ Bumped("not_confirmed") =>
            /\ confirmation = "Oracle" /\ reached
            /\ OnlyCounts("not_confirmed")
    ]_vars

\* the oracle refuses a signal after a trade was executed
C9_Witness ==
  /\ confirmation = "Oracle"
  /\ last.outcome = "not_confirmed"
  /\ last.confirm = "rejected"
  /\ Len(trades) = 1
  /\ filter_stats.not_confirmed = 1

\* the bars strictly after t
LaterBars(t) == {k \in 1..Len(price_data) : price_data[k].ts > t}

\* C10: every executed trade enters at the first bar whose timestamp is
\* strictly greater than signal_time, at that bar's Open; a signal past the
\* cooldown and session gates with no bar strictly after its timestamp
\* increments no_entry_bar and produces no trade.
C10_EntryBarGate ==
  [][/\ \A i \in 1..Len(trades') :
          \E k \in LaterBars(trades'[i].signal_time) :
            /\ \A j \in LaterBars(trades'[i].signal_time) :
                 price_data[k].ts <= price_data[j].ts
            /\ trades'[i].entry_time = price_data[k].ts
            /\ trades'[i].entry_price = price_data[k].Open
     /\ Processed =>
          LET sig == RowOf(last') IN
          /\ (PassSession(sig) /\ LaterBars(sig.timestamp) = {}) =>
               Bumped("no_entry_bar")
          /\ Bumped("no_entry_bar") =>
               /\ PassSession(sig) /\ LaterBars(sig.timestamp) = {}
               /\ OnlyCounts("no_entry_bar")
    ]_vars

\* one signal was traded from the first bar after it; a later signal is
\* timestamped with the last bar of the series, which leaves it no entry bar
C10_Witness ==
  /\ Len(trades) = 1
  /\ trades[1].entry_time > trades[1].signal_time
  /\ last.outcome = "no_entry_bar"
  /\ filter_stats.no_entry_bar = 1
  /\ price_data # <<>>
  /\ price_data[Len(price_data)].ts = last.signal_time

\* ------------------------------------------------------------------------
\* Context series
\* ------------------------------------------------------------------------
\* snapshots of one context series
MaxSnaps == 2

SnapFields == {WithVol(20), WithVol(40)}

\* a context frame as load_jsonl_events returns it (sort_index): snapshots in
\* increasing timestamp order; the empty series stands for "no records"
SeriesChoices ==
  UNION {
    {s \in [1..n -> [ts : Times, fields : SnapFields]] :
       \A i \in 1..(n - 1) : s[i].ts < s[i + 1].ts}
    : n \in 0..MaxSnaps}

\* context_data with no 'garch' key, with every garch series, and with a
\* second source next to the short garch series
SeriesContexts ==
  {[n \in {} |-> <<>>]}
  \cup {[n \in {"garch"} |-> s] : s \in SeriesChoices}
  \cup {[n \in {"garch", "vp"} |->
           IF n = "garch" THEN s ELSE <<Snap(TickTime(1), NoFields)>>] :
          s \in {x \in SeriesChoices : Len(x) <= 1}}

\* price series for the context runs: one bar only, or a bar on every tick
\* with the last one crossing both levels
SeriesPrices ==
  {[i \in 1..n |-> Bar(TickTime(i), IF i = MaxTick THEN "both" ELSE "quiet")] :
     n \in {1, MaxTick}}

\* an engine with an oracle and a cooldown, given any of the context series
InitSeries ==
  /\ pc = "idle"
  /\ runs = 0
  /\ cooldown_hours = TickHours
  /\ end_date \in EndDateChoices
  /\ confirmation = "Oracle"
  /\ price_data \in SeriesPrices
  /\ context_data \in SeriesContexts
  /\ equity = 0
  /\ last_trade_time = None
  /\ trades = <<>>
  /\ equity_curve = <<>>
  /\ filter_stats = <<>>
  /\ sig_count = 0
  /\ order = "sorted"
  /\ last = NoEvent
  /\ calc = NoCalc
  /\ replay = NoReplay

SpecSeries == InitSeries /\ [][Next]_vars

\* positions of the snapshots of series df at or before t
AtOrBefore(df, t) == {k \in 1..Len(df) : df[k].ts <= t}

\* the snapshot of df with the greatest timestamp <= t
LatestAtOrBefore(df, t) ==
  df[CHOOSE k \in AtOrBefore(df, t) : \A j \in AtOrBefore(df, t) : df[j].ts <= df[k].ts]

\* the 'garch' source is absent, empty, or has no snapshot at or before t
NoGarchAt(t) ==
  \/ "garch" \notin DOMAIN context_data
  \/ context_data["garch"] = <<>>
  \/ AtOrBefore(context_data["garch"], t) = {}

\* C11: the snapshot fused into a signal's context is, for each context
\* source, the one with the greatest timestamp <= signal_time (none if there
\* is none), never a later one; a signal that reached the context gate is
\* rejected with no_context exactly when the 'garch' source is absent, empty
\* or has no snapshot at or before signal_time; every trade used the
\* volatility of that snapshot.
C11_NoLookahead ==
  /\ \A t \in Times : \A n \in DOMAIN context_data :
       FuseContext(context_data, t)[n] =
         IF AtOrBefore(context_data[n], t) = {} THEN None
         ELSE Some(LatestAtOrBefore(context_data[n], t).fields)
  /\ InRun =>
       /\ last.outcome = "no_context" => NoGarchAt(last.signal_time)
       /\ last.outcome \in {"not_confirmed", "executed", "unresolved"} =>
            ~NoGarchAt(last.signal_time)
       /\ \A i \in 1..Len(trades) :
            /\ ~NoGarchAt(trades[i].signal_time)
            /\ LET g == LatestAtOrBefore(context_data["garch"],
                                         trades[i].signal_time).fields
               IN trades[i].garch_vol =
                    IF "vol" \in DOMAIN g THEN g["vol"] ELSE default_vol

\* a signal before the first snapshot is rejected, a later one is traded on
\* the snapshot at its own timestamp while a different snapshot lies ahead
C11_Witness ==
  /\ Len(trades) = 1
  /\ filter_stats.no_context = 1
  /\ Len(context_data["garch"]) = 2
  /\ context_data["garch"][1].ts = trades[1].signal_time
  /\ context_data["garch"][2].ts > trades[1].signal_time
  /\ context_data["garch"][1].fields = WithVol(40)
  /\ context_data["garch"][2].fields = WithVol(20)
  /\ trades[1].garch_vol = 40

\* the session the hour h of the day belongs to: [0,8) Asian, [8,13) London,
\* [13,22) New_York, [22,24) Off_Hours
SessionOfHour(h) ==
  CASE h \in 0..7 -> "Asian"
    [] h \in 8..12 -> "London"
    [] h \in 13..21 -> "New_York"
    [] h \in 22..23 -> "Off_Hours"

\* rows that got past the session gate
PastSession ==
  {"no_entry_bar", "no_context", "not_confirmed", "executed", "unresolved"}

\* C12: get_session maps every hour 0..23 of any day to exactly one session,
\* [0,8) Asian, [8,13) London, [13,22) New_York, [22,24) Off_Hours; a signal
\* past the cooldown gate is rejected with session_blocked exactly when its
\* session is not in allowed_sessions; every trade carries the session of its
\* signal_time, which is an allowed one.  (The classification does not depend
\* on the engine's state: it is evaluated on the constructed engine.)
C12_SessionGate ==
  /\ pc = "idle" =>
       \A day \in 0..1 : \A h \in 0..23 :
         /\ get_session(24 * day + h) = SessionOfHour(h)
         /\ Cardinality({s \in {"Asian", "London", "New_York", "Off_Hours"} :
                           get_session(24 * day + h) = s}) = 1
  /\ InRun =>
       /\ last.outcome = "session_blocked" =>
            SessionOfHour(last.signal_time % 24) \notin allowed_sessions
       /\ last.outcome \in PastSession =>
            SessionOfHour(last.signal_time % 24) \in allowed_sessions
       /\ \A i \in 1..Len(trades) :
            /\ trades[i].session = SessionOfHour(trades[i].signal_time % 24)
            /\ trades[i].session \in allowed_sessions

\* a London signal was traded, a later Off_Hours signal is blocked
C12_Witness ==
  /\ Len(trades) = 1
  /\ trades[1].session = "London"
  /\ last.outcome = "session_blocked"
  /\ filter_stats.session_blocked = 1
  /\ get_session(last.signal_time) = "Off_Hours"

\* ------------------------------------------------------------------------
\* Gate order
\* ------------------------------------------------------------------------
\* an engine with an oracle and a cooldown longer than two ticks, so that a
\* signal can be inside the cooldown of a trade that has already exited
InitLongCooldown ==
  /\ pc = "idle"
  /\ runs = 0
  /\ cooldown_hours = 3 * TickHours
  /\ end_date \in EndDateChoices
  /\ confirmation = "Oracle"
  /\ price_data \in PriceChoices
  /\ context_data \in ContextChoices
  /\ equity = 0
  /\ last_trade_time = None
  /\ trades = <<>>
  /\ equity_curve = <<>>
  /\ filter_stats = <<>>
  /\ sig_count = 0
  /\ order = "sorted"
  /\ last = NoEvent
  /\ calc = NoCalc
  /\ replay = NoReplay

SpecLongCooldown == InitLongCooldown /\ [][Next]_vars

GateKeys ==
  {"cooldown_blocked", "session_blocked", "no_entry_bar", "no_context",
   "not_confirmed"}

\* the first gate, in the order cooldown, session, entry bar, context,
\* confirmation, that the row at time t fails in the current state, given what
\* the oracle answered if it was asked ("none" if the row fails no gate)
FirstFailingGate(t, confirm) ==
  IF trades # <<>> /\ t - trades[Len(trades)].signal_time < cooldown_hours
    THEN "cooldown_blocked"
  ELSE IF SessionOfHour(t % 24) \notin allowed_sessions THEN "session_blocked"
  ELSE IF LaterBars(t) = {} THEN "no_entry_bar"
  ELSE IF NoGarchAt(t) THEN "no_context"
  ELSE IF confirm = "rejected" THEN "not_confirmed"
  ELSE "none"

\* C13: the gates are applied in the order cooldown, session, entry bar,
\* context, confirmation: a processed signal increments the counter of the
\* first gate it fails, by exactly one, and no other gate counter (a signal
\* failing no gate increments none), and the oracle is not called for a
\* signal rejected by one of the first four gates.
C13_GateOrder ==
  [][Processed =>
       LET gate == FirstFailingGate(last'.signal_time, last'.confirm) IN
       /\ gate # "none" => OnlyCounts(gate)
       /\ gate = "none" => \A key \in GateKeys : filter_stats'[key] = filter_stats[key]
       /\ gate \in GateKeys \ {"not_confirmed"} => last'.confirm = "not_called"
       /\ gate \in GateKeys <=> last'.outcome = gate
    ]_vars

\* a signal inside the cooldown of the only trade and in a session that is
\* not allowed: counted as cooldown_blocked only
C13_Witness ==
  /\ Len(trades) = 1
  /\ last.outcome = "cooldown_blocked"
  /\ last.signal_time - trades[1].signal_time < cooldown_hours
  /\ get_session(last.signal_time) \notin allowed_sessions
  /\ filter_stats.cooldown_blocked = 1
  /\ filter_stats.session_blocked = 0
  /\ last.confirm = "not_called"

\* C14: after any run, equity_curve is the initial point (start_date,
\* initial_capital) followed by one point per executed trade:
\* len(equity_curve) = 1 + len(trades), the point after the i-th trade holds
\* that trade's equity, and the timestamps of the curve are strictly
\* increasing.
C14_EquityCurve ==
  InRun =>
    /\ equity_curve[1] = <<24 * start_date, initial_capital * RScale>>
    /\ Len(equity_curve) = 1 + Len(trades)
    /\ \A i \in 1..Len(trades) : equity_curve[i + 1][2] = trades[i].equity
    /\ \A i \in 1..(Len(equity_curve) - 1) :
         equity_curve[i][1] < equity_curve[i + 1][1]

\* the calendar day of timestamp t, in days after start_date
DayOf(t) == t \div 24

\* C15: a consumed signal is processed (counted in total_signals and run
\* through the gates) if and only if its timestamp falls on a calendar day
\* within the inclusive bounds [start_date, end_date], whatever its time of
\* day; a signal outside the window is counted nowhere.
C15_DateWindow ==
  (InRun /\ sig_count > 0) =>
    LET inside == start_date <= DayOf(last.signal_time)
                  /\ DayOf(last.signal_time) <= end_date
    IN /\ last.outcome # "filtered" <=> inside
       /\ sig_count = 1 => filter_stats.total_signals = (IF inside THEN 1 ELSE 0)

\* ------------------------------------------------------------------------
\* Unvalidated configurations and inputs
\* ------------------------------------------------------------------------
\* the first bar moved behind the others: timestamps no longer increasing
Rotate(p) == Tail(p) \o <<Head(p)>>

UnsortedPrices == {Rotate(p) : p \in {q \in PriceChoices : Len(q) >= 2}}

\* BacktestConfig accepts any values: a negative cooldown and an end_date
\* before start_date included; run_backtest accepts any frames: a signal
\* frame in any row order and an unsorted or empty price frame included
InitUnchecked ==
  /\ pc = "idle"
  /\ runs = 0
  /\ cooldown_hours \in {-TickHours, TickHours}
  /\ end_date \in {-1, 1}
  /\ confirmation = "Oracle"
  /\ price_data \in PriceChoices \cup UnsortedPrices
  /\ context_data \in ContextChoices
  /\ equity = 0
  /\ last_trade_time = None
  /\ trades = <<>>
  /\ equity_curve = <<>>
  /\ filter_stats = <<>>
  /\ sig_count = 0
  /\ order \in {"sorted", "any"}
  /\ last = NoEvent
  /\ calc = NoCalc
  /\ replay = NoReplay

SpecUnchecked == InitUnchecked /\ [][Next]_vars

ConfigError == end_date < start_date \/ cooldown_hours < 0

\* C16: a run configured with end_date before start_date, or with a negative
\* cooldown, aborts before any signal is processed: no counter is
\* incremented, no trade is created and no trade list is returned.
C16_ConfigErrorsFatal ==
  ConfigError =>
    /\ pc # "done"
    /\ trades = <<>>
    /\ pc = "running" => filter_stats = ZeroStats /\ sig_count = 0

\* the inputs of the run are malformed: a signal frame with a row older than
\* the row before it, a price frame whose timestamps are not strictly
\* increasing, or an empty price frame
Malformed ==
  \/ order = "inverted"
  \/ price_data = <<>>
  \/ \E k \in 1..(Len(price_data) - 1) : price_data[k].ts >= price_data[k + 1].ts

\* C17: given a signal stream whose timestamps are not ascending, a price
\* series whose timestamps are not strictly increasing, or an empty required
\* series, the engine refuses to run: it processes no signal, produces no
\* trade and returns no trade list.
C17_MalformedInputFatal ==
  Malformed =>
    /\ pc # "done"
    /\ trades = <<>>
    /\ pc = "running" => filter_stats = ZeroStats

\* ------------------------------------------------------------------------
\* Floating-point arithmetic
\* ------------------------------------------------------------------------
\* Python floats are binary floating-point numbers: the result of every
\* operation is the exact result rounded to the nearest number with a fixed
\* count of significant bits, ties going to the even one.  The interpreter
\* rounds to 53 bits; here the count is FloatBits.  A float is held as the
\* fraction <<n, d>> in lowest terms, d a power of two.
FloatBits == 8

RECURSIVE Pow2(_)
Pow2(k) == IF k = 0 THEN 1 ELSE 2 * Pow2(k - 1)

\* n / d scaled by a power of two into [2^(FloatBits-1), 2^FloatBits):
\* <<n2, d2, k>> with n2 / d2 = (n / d) * 2^k
RECURSIVE Normalize(_, _, _)
Normalize(n, d, k) ==
  IF n \div d >= Pow2(FloatBits) THEN Normalize(n, 2 * d, k - 1)
  ELSE IF n \div d < Pow2(FloatBits - 1)
    THEN IF d % 2 = 0 THEN Normalize(n, d \div 2, k + 1)
         ELSE Normalize(2 * n, d, k + 1)
  ELSE <<n, d, k>>

\* the integer nearest to n / d, ties to even
NearestEven(n, d) ==
  LET fl == n \div d
      rem2 == 2 * (n % d)
  IN IF rem2 > d \/ (rem2 = d /\ fl % 2 = 1) THEN fl + 1 ELSE fl

RECURSIVE Lowest(_, _)
Lowest(n, d) ==
  IF n % 2 = 0 /\ d % 2 = 0 THEN Lowest(n \div 2, d \div 2) ELSE <<n, d>>

\* the float nearest to the exact value n / d (d > 0)
Round(n, d) ==
  IF n = 0 THEN <<0, 1>>
  ELSE LET s == Normalize(Abs(n), d, 0)
           mant == NearestEven(s[1], s[2]) * (IF n < 0 THEN -1 ELSE 1)
       IN IF s[3] >= 0 THEN Lowest(mant, Pow2(s[3]))
          ELSE <<mant * Pow2(-s[3]), 1>>

\* x * y, x - y and a / b as the interpreter computes them
FMul(x, y) == Round(x[1] * y[1], x[2] * y[2])
FSub(x, y) == Round(x[1] * y[2] - y[1] * x[2], x[2] * y[2])
FDiv(a, b) == Round(a, b)
\* max(x, y) on floats
FMax(x, y) == IF x[1] * y[2] < y[1] * x[2] THEN y ELSE x

\* ------------------------------------------------------------------------
\* PerformanceAnalytics
\* ------------------------------------------------------------------------
\* float('inf'), and a finite ratio in RScale units per 1.0
Infinity == <<"inf">>
Finite(x) == <<"finite", x>>

\* sum(...) over a list of r_multiples
RECURSIVE SumSeq(_)
SumSeq(r_multiples) ==
  IF r_multiples = <<>> THEN 0
  ELSE Head(r_multiples) + SumSeq(Tail(r_multiples))

\* [r for r in r_multiples if r > 0] and [r for r in r_multiples if r < 0]
Positive(r_multiples) == SelectSeq(r_multiples, LAMBDA r : r > 0)
Negative(r_multiples) == SelectSeq(r_multiples, LAMBDA r : r < 0)

\* variant: the count of losing trades, not the gross loss, decides
ProfitFactor_ByLosses(r_multiples) ==
  LET wins == Cardinality({i \in 1..Len(r_multiples) : r_multiples[i] > 0})
      losses == Len(r_multiples) - wins
      gross_profit == SumSeq(Positive(r_multiples))
      gross_loss == Abs(SumSeq(Negative(r_multiples)))
  IN IF losses > 0
     THEN Finite(IF gross_loss > 0 THEN (gross_profit * RScale) \div gross_loss
                 ELSE 0)
     ELSE Infinity

\* "Profit factor" of calculate_metrics
ProfitFactor(r_multiples) ==
  LET gross_profit == SumSeq(Positive(r_multiples))
      gross_loss == Abs(SumSeq(Negative(r_multiples)))
  IN IF gross_loss > 0 THEN Finite((gross_profit * RScale) \div gross_loss)
     ELSE Infinity

\* variant: avg_loss is the mean over the trades with a negative r_multiple
Expectancy_MeanOfNegatives(r_multiples) ==
  LET wins == Len(Positive(r_multiples))
      losses == Len(Negative(r_multiples))
      win_rate == FDiv(wins, Len(r_multiples))
      gross_profit == SumSeq(Positive(r_multiples))
      gross_loss == Abs(SumSeq(Negative(r_multiples)))
      avg_win == IF wins > 0 THEN FDiv(gross_profit, RScale * wins) ELSE <<0, 1>>
      avg_loss == IF losses > 0 THEN FDiv(gross_loss, RScale * losses) ELSE <<0, 1>>
  IN [win_rate   |-> win_rate,
      avg_win    |-> avg_win,
      avg_loss   |-> avg_loss,
      expectancy |-> FSub(FMul(win_rate, avg_win),
                          FMul(FSub(<<1, 1>>, win_rate), avg_loss))]

\* "Basic stats" and "Expectancy" of calculate_metrics; the sums of the
\* r_multiples are in RScale units and exact
Expectancy(r_multiples) ==
  LET wins == Len(Positive(r_multiples))
      losses == Len(r_multiples) - wins
      win_rate == FDiv(wins, Len(r_multiples))
      gross_profit == SumSeq(Positive(r_multiples))
      gross_loss == Abs(SumSeq(Negative(r_multiples)))
      avg_win == IF wins > 0 THEN FDiv(gross_profit, RScale * wins) ELSE <<0, 1>>
      avg_loss == IF losses > 0 THEN FDiv(gross_loss, RScale * losses) ELSE <<0, 1>>
  IN [win_rate   |-> win_rate,
      avg_win    |-> avg_win,
      avg_loss   |-> avg_loss,
      expectancy |-> FSub(FMul(win_rate, avg_win),
                          FMul(FSub(<<1, 1>>, win_rate), avg_loss))]

Max(a, b) == IF a > b THEN a ELSE b

\* variant: the peak stays at the initial capital
RECURSIVE DrawdownWalk_FixedPeak(_, _, _, _, _)
DrawdownWalk_FixedPeak(equity_values, i, peak, max_drawdown, max_drawdown_pct) ==
  IF i > Len(equity_values)
  THEN [max_drawdown |-> max_drawdown, max_drawdown_pct |-> max_drawdown_pct]
  ELSE
    LET eq == equity_values[i]
        drawdown == peak - eq
        drawdown_pct == IF peak > 0 THEN FDiv(drawdown, peak) ELSE <<0, 1>>
    IN DrawdownWalk_FixedPeak(equity_values, i + 1, peak,
                              Max(max_drawdown, drawdown),
                              FMax(max_drawdown_pct, drawdown_pct))

\* the loop of "Drawdown analysis" over equity_values, from position i;
\* equities are in RScale units and exact
RECURSIVE DrawdownWalk(_, _, _, _, _)
DrawdownWalk(equity_values, i, peak, max_drawdown, max_drawdown_pct) ==
  IF i > Len(equity_values)
  THEN [max_drawdown |-> max_drawdown, max_drawdown_pct |-> max_drawdown_pct]
  ELSE
    LET eq == equity_values[i]
        new_peak == IF eq > peak THEN eq ELSE peak
        drawdown == new_peak - eq
        drawdown_pct == IF new_peak > 0 THEN FDiv(drawdown, new_peak) ELSE <<0, 1>>
    IN DrawdownWalk(equity_values, i + 1, new_peak,
                    Max(max_drawdown, drawdown),
                    FMax(max_drawdown_pct, drawdown_pct))

\* PerformanceAnalytics.calculate_metrics: the entries of the result that
\* depend on the r_multiples and the equities only; capital is in whole
\* units, equities in RScale units
calculate_metrics(trade_list, capital) ==
  IF trade_list = <<>> THEN [k \in {} |-> 0]
  ELSE
    LET r_multiples == [i \in 1..Len(trade_list) |-> trade_list[i].r_multiple]
        equity_values == [i \in 1..Len(trade_list) |-> trade_list[i].equity]
        stats == Expectancy(r_multiples)
        dd == DrawdownWalk(equity_values, 1, capital * RScale, 0, <<0, 1>>)
    IN [total_trades    |-> Len(trade_list),
        total_r         |-> SumSeq(r_multiples),
        win_rate        |-> stats.win_rate,
        profit_factor   |-> ProfitFactor(r_multiples),
        max_drawdown    |-> dd.max_drawdown,
        max_drawdown_pct |-> FMul(dd.max_drawdown_pct, <<100, 1>>),
        avg_r_per_trade |-> FDiv(SumSeq(r_multiples), RScale * Len(trade_list)),
        expectancy      |-> stats.expectancy,
        avg_win         |-> stats.avg_win,
        avg_loss        |-> stats.avg_loss]

\* ------------------------------------------------------------------------
\* Direct calls of the risk calculator and of the analytics
\* ------------------------------------------------------------------------
\* trades of a list handed to the analytics
MaxTrades == 3

\* r_multiple of a stopped trade, of a trade closed at its entry price, and
\* of a trade closed at the default target
RChoices == {-RScale, 0, reward_risk_ratio * RScale}

\* equity of a trade: below zero, below, at and above the initial capital
EquityChoices == {k * ((initial_capital * RScale) \div 2) : k \in {-1, 1, 2, 3}}

CapitalChoices == {0, initial_capital}

TradeLists ==
  UNION {[1..n -> [r_multiple : RChoices, equity : EquityChoices]] :
           n \in 0..MaxTrades}
\* volatilities within VolMargin of the two thresholds are tried
VolMargin == 1

EntryPriceChoices == {100, BasePrice}
DirectionStrings ==
  {"LONG", "long", "Long", "BUY", "buy", "Buy",
   "SHORT", "short", "Short", "SELL", "sell", "Sell"}
VolChoices ==
  {20} \cup ((low_vol_threshold - VolMargin)..(low_vol_threshold + VolMargin))
       \cup ((high_vol_threshold - VolMargin)..(high_vol_threshold + VolMargin))

\* the caller's state: a constructed engine that is not asked to run
InitCalls ==
  /\ pc = "idle"
  /\ runs = 0
  /\ cooldown_hours = TickHours
  /\ end_date = 1
  /\ confirmation = "None"
  /\ price_data = <<>>
  /\ context_data = [n \in {} |-> <<>>]
  /\ equity = 0
  /\ last_trade_time = None
  /\ trades = <<>>
  /\ equity_curve = <<>>
  /\ filter_stats = <<>>
  /\ sig_count = 0
  /\ order = "sorted"
  /\ last = NoEvent
  /\ calc = NoCalc
  /\ replay = NoReplay

\* risk_calculator.calculate_stops(entry_price, direction, garch_vol, {});
\* the functions called directly keep nothing between calls, so one call is
\* followed per behaviour
CallCalculateStops ==
  /\ calc = NoCalc
  /\ \E entry_price \in EntryPriceChoices, direction \in DirectionStrings,
        garch_vol \in VolChoices :
       calc' = [fn   |-> "calculate_stops",
                args |-> <<entry_price, direction, garch_vol>>,
                out  |-> calculate_stops(entry_price, direction, garch_vol)]
  /\ UNCHANGED <<pc, runs, config, inputs, engine, sig_count, order, last, replay>>

\* PerformanceAnalytics.calculate_metrics(trades, config.initial_capital)
CallCalculateMetrics ==
  /\ calc = NoCalc
  /\ \E trade_list \in TradeLists, capital \in CapitalChoices :
       calc' = [fn   |-> "calculate_metrics",
                args |-> <<trade_list, capital>>,
                out  |-> calculate_metrics(trade_list, capital)]
  /\ UNCHANGED <<pc, runs, config, inputs, engine, sig_count, order, last, replay>>

NextCalls ==
  \/ CallCalculateStops
  \/ CallCalculateMetrics

SpecCalls == InitCalls /\ [][NextCalls]_vars

\* C18: calculate_stops takes the stop distance by half-open regimes
\* (vol < low: sl_low; low <= vol < high: sl_med; vol >= high: sl_high, so a
\* volatility equal to a threshold is in the upper regime), the target
\* distance is stop distance * reward_risk_ratio, and the result is
\* (entry - stop, entry + target) for LONG/BUY in any letter case and
\* (entry + stop, entry - target) for SHORT/SELL; vol 20, LONG, entry 100
\* gives stop -100 and target 500; the call leaves the engine untouched.
C18_CalculateStops ==
  calc.fn = "calculate_stops" =>
    LET entry == calc.args[1]
        dir == calc.args[2]
        vol == calc.args[3]
        stop == CASE vol < 25 -> 200
                  [] 25 <= vol /\ vol < 35 -> 250
                  [] vol >= 35 -> 350
        target == stop * 2
        long == dir \in {"LONG", "long", "Long", "BUY", "buy", "Buy"}
    IN /\ long => calc.out = [sl_price |-> entry - stop, tp_price |-> entry + target]
       /\ ~long => calc.out = [sl_price |-> entry + stop, tp_price |-> entry - target]
       /\ calc.args = <<100, "LONG", 20>> =>
            calc.out = [sl_price |-> -100, tp_price |-> 500]
       /\ pc = "idle" /\ trades = <<>> /\ filter_stats = <<>> /\ equity = 0

\* a lower-case buy at a volatility equal to the low threshold: medium stop
C18_Witness ==
  /\ calc.fn = "calculate_stops"
  /\ calc.args = <<100, "buy", low_vol_threshold>>
  /\ calc.out = [sl_price |-> 100 - sl_med, tp_price |-> 100 + 2 * sl_med]

\* ------------------------------------------------------------------------
\* Repeated runs
\* ------------------------------------------------------------------------
\* an engine whose caller repeats the first call with the same frames
InitRerun ==
  /\ pc = "idle"
  /\ runs = 0
  /\ cooldown_hours = TickHours
  /\ end_date \in EndDateChoices
  /\ confirmation = "Oracle"
  /\ price_data \in SeriesPrices
  /\ context_data \in ContextChoices
  /\ equity = 0
  /\ last_trade_time = None
  /\ trades = <<>>
  /\ equity_curve = <<>>
  /\ filter_stats = <<>>
  /\ sig_count = 0
  /\ order = "sorted"
  /\ last = NoEvent
  /\ calc = NoCalc
  /\ replay = FirstCall

SpecRerun == InitRerun /\ [][Next]_vars

\* C19: every call of run_backtest starts from re-initialized equity,
\* last_trade_time, filter_stats, trades and equity_curve, and a call that
\* repeats the first call's inputs on the same engine (the oracle answering
\* as before) returns the trades, equity curve and counters the first call
\* returned.
C19_RunIsolation ==
  /\ (pc = "running" /\ sig_count = 0) =>
       /\ equity = initial_capital * RScale
       /\ last_trade_time = None
       /\ trades = <<>>
       /\ filter_stats = ZeroStats
       /\ equity_curve = << <<24 * start_date, initial_capital * RScale>> >>
  /\ (replay.on /\ runs > 1 /\ pc = "done") =>
       /\ replay.result # None
       /\ trades = replay.result[1].trades
       /\ equity_curve = replay.result[1].equity_curve
       /\ filter_stats = replay.result[1].filter_stats

\* the first call ended on a trade, leaving a cooldown active and counters
\* non-zero; the repeated call has returned
C19_Witness ==
  /\ replay.on
  /\ runs = 2
  /\ pc = "done"
  /\ Len(replay.rows) = 2
  /\ Len(trades) = 1
  /\ last.outcome = "executed"
  /\ filter_stats.total_signals = 2
  /\ replay.result = Some([trades |-> trades, equity_curve |-> equity_curve,
                           filter_stats |-> filter_stats])

\* the r_multiples of the list handed to the latest calculate_metrics call
MetricsInput == calc.fn = "calculate_metrics" /\ calc.args[1] # <<>>
InputR == {calc.args[1][i].r_multiple : i \in 1..Len(calc.args[1])}

\* C20 as stated: for a non-empty trade list, profit_factor is +infinity
\* when there are zero losing trades and finite otherwise, a trade with
\* r_multiple == 0 counting as a loss.
C20_ProfitFactor ==
  MetricsInput =>
    (calc.out.profit_factor = Infinity <=> \A r \in InputR : r > 0)

\* C20, amended: for a non-empty trade list, profit_factor is +infinity
\* exactly when no trade has a negative r_multiple (the gross loss, the
\* absolute sum of the negative r_multiples, is 0) and is the finite ratio
\* gross profit / gross loss otherwise; trades with r_multiple == 0 do not
\* make it finite.
C20_ProfitFactorByGrossLoss ==
  MetricsInput =>
    LET rs == [i \in 1..Len(calc.args[1]) |-> calc.args[1][i].r_multiple]
        gain == SumSeq(SelectSeq(rs, LAMBDA r : r > 0))
        loss == -SumSeq(SelectSeq(rs, LAMBDA r : r < 0))
    IN /\ calc.out.profit_factor = Infinity <=> \A r \in InputR : r >= 0
       /\ (\E r \in InputR : r < 0) =>
            /\ loss > 0
            /\ calc.out.profit_factor = Finite((gain * RScale) \div loss)

\* a list with a winner and a trade closed at its entry price, no negative
\* r_multiple: one losing trade by count, profit_factor infinite
C20_Witness ==
  /\ MetricsInput
  /\ 0 \in InputR
  /\ \E r \in InputR : r > 0
  /\ \A r \in InputR : r >= 0
  /\ calc.out.profit_factor = Infinity

\* the r_multiples of the list handed to the latest calculate_metrics call,
\* in list order
InputRs == [i \in 1..Len(calc.args[1]) |-> calc.args[1][i].r_multiple]

\* C21: for a non-empty trade list, expectancy is
\* win_rate * avg_win - (1 - win_rate) * avg_loss with win_rate the count of
\* r_multiple > 0 over the count of trades, avg_win the mean of the positive
\* r_multiples and avg_loss the mean of the absolute values of the negative
\* r_multiples (each 0 if its class is empty), lists with r_multiple == 0
\* included.
C21_Expectancy ==
  MetricsInput =>
    LET n == Len(InputRs)
        pos == SelectSeq(InputRs, LAMBDA r : r > 0)
        neg == SelectSeq(InputRs, LAMBDA r : r < 0)
        win_rate == FDiv(Len(pos), n)
        avg_win == IF pos = <<>> THEN <<0, 1>>
                   ELSE FDiv(SumSeq(pos), RScale * Len(pos))
        avg_loss == IF neg = <<>> THEN <<0, 1>>
                    ELSE FDiv(-SumSeq(neg), RScale * Len(neg))
    IN /\ calc.out.win_rate = win_rate
       /\ calc.out.expectancy =
            FSub(FMul(win_rate, avg_win), FMul(FSub(<<1, 1>>, win_rate), avg_loss))

\* the equity sequence of the latest calculate_metrics call: the initial
\* capital (position 0) followed by each trade's equity, in RScale units
EquityPoint(k) ==
  IF k = 0 THEN calc.args[2] * RScale ELSE calc.args[1][k].equity
RunningPeak(k) ==
  CHOOSE v \in {EquityPoint(j) : j \in 0..k} :
    \A j \in 0..k : EquityPoint(j) <= v

\* C22: walking the equity sequence (initial_capital, then each trade's
\* equity) with a running peak, max_drawdown is the maximum of peak - equity
\* over the sequence; it is never negative and the drawdown is zero at the
\* first point; max_drawdown_pct <= 100 whenever no equity value of the
\* sequence is negative.
C22_Drawdown ==
  MetricsInput =>
    LET n == Len(calc.args[1])
        drops == {RunningPeak(k) - EquityPoint(k) : k \in 0..n}
    IN /\ calc.out.max_drawdown \in drops
       /\ \A d \in drops : d <= calc.out.max_drawdown
       /\ calc.out.max_drawdown >= 0
       /\ RunningPeak(0) - EquityPoint(0) = 0
       /\ (\A k \in 1..n : EquityPoint(k) >= EquityPoint(k - 1)) =>
            calc.out.max_drawdown = 0
       /\ (\A k \in 0..n : EquityPoint(k) >= 0) =>
            /\ calc.out.max_drawdown_pct[1] >= 0
            /\ calc.out.max_drawdown_pct[1] <= 100 * calc.out.max_drawdown_pct[2]

\* the equity rises above the initial capital, then falls to half of the
\* peak: the drawdown is measured from the later peak
C22_Witness ==
  /\ MetricsInput
  /\ calc.args[2] = initial_capital
  /\ Len(calc.args[1]) = 2
  /\ EquityPoint(1) > EquityPoint(0)
  /\ EquityPoint(2) < EquityPoint(0)
  /\ EquityPoint(2) >= 0
  /\ calc.out.max_drawdown = EquityPoint(1) - EquityPoint(2)
  /\ calc.out.max_drawdown_pct[1] > 50 * calc.out.max_drawdown_pct[2]

\* ------------------------------------------------------------------------
\* The resolution window
\* ------------------------------------------------------------------------
\* the largest max_bars handed to _simulate_trade by a direct call
MaxWindow == 2

\* price series for the window runs: one bar only, or a bar on every tick,
\* at most one bar reaching Swing points above or below its open
WindowPrices ==
  {[i \in 1..n |-> Bar(TickTime(i), IF i = j THEN sh ELSE "quiet")] :
     n \in {1, MaxTick}, j \in 1..MaxTick, sh \in {"up", "down"}}

\* an engine with an oracle and a cooldown, given any of these price series
InitWindow ==
  /\ pc = "idle"
  /\ runs = 0
  /\ cooldown_hours = TickHours
  /\ end_date \in EndDateChoices
  /\ confirmation = "Oracle"
  /\ price_data \in WindowPrices
  /\ context_data \in ContextChoices
  /\ equity = 0
  /\ last_trade_time = None
  /\ trades = <<>>
  /\ equity_curve = <<>>
  /\ filter_stats = <<>>
  /\ sig_count = 0
  /\ order = "sorted"
  /\ last = NoEvent
  /\ calc = NoCalc
  /\ replay = NoReplay

\* engine._simulate_trade(price_data, entry_time, entry_price, direction,
\* sl_price, tp_price, max_bars) called once on the frame of the finished
\* run, the levels placed as calculate_stops places them at the default
\* volatility; the result depends on the arguments only, so the call is
\* followed after the runs of at most one row
CallSimulateTrade ==
  /\ pc = "done"
  /\ sig_count <= 1
  /\ calc = NoCalc
  /\ \E entry_time \in Times, direction \in DirectionChoices,
        maxbars \in 0..MaxWindow :
       LET entry_price == BasePrice + entry_time
           stops == calculate_stops(entry_price, direction, default_vol)
       IN calc' = [fn   |-> "simulate_trade",
                   args |-> <<price_data, entry_time, entry_price, direction,
                              stops.sl_price, stops.tp_price, maxbars>>,
                   out  |-> simulate_trade(price_data, entry_time, entry_price,
                                           direction, stops.sl_price,
                                           stops.tp_price, maxbars)]
  /\ UNCHANGED <<pc, runs, config, inputs, engine, sig_count, order, last, replay>>

NextWindow ==
  \/ Next
  \/ CallSimulateTrade

SpecWindow == InitWindow /\ [][NextWindow]_vars

\* the latest direct call of _simulate_trade, read as a trade's levels
WindowCall == calc.fn = "simulate_trade"
CallLevels ==
  [entry_time |-> calc.args[2], direction |-> calc.args[4],
   sl_price |-> calc.args[5], tp_price |-> calc.args[6]]

\* positions of the bars the call may examine: timestamp strictly after
\* entry_time, fewer than max_bars such bars before it
InCallWindow ==
  {k \in 1..Len(calc.args[1]) :
     /\ calc.args[1][k].ts > calc.args[2]
     /\ Cardinality({j \in 1..Len(calc.args[1]) :
                       /\ calc.args[1][j].ts > calc.args[2]
                       /\ calc.args[1][j].ts < calc.args[1][k].ts}) < calc.args[7]}

\* C23: _simulate_trade examines only the bars with timestamp strictly
\* after entry_time, in ascending order and at most the first max_bars of
\* them, and returns the outcome of the earliest of these that crosses the
\* stop or the target (None if none does, so also when the first crossing
\* lies beyond the max_bars-th bar or on the entry bar itself); every
\* recorded trade has signal_time < entry_time < exit_time and exits on the
\* earliest crossing bar after its entry bar.
C23_ResolutionWindow ==
  /\ \A i \in 1..Len(trades) :
       /\ trades[i].signal_time < trades[i].entry_time
       /\ trades[i].entry_time < trades[i].exit_time
       /\ Crossings(trades[i]) # {}
       /\ trades[i].exit_time = price_data[FirstCrossing(trades[i])].ts
  /\ WindowCall =>
       LET hits == Crossings(CallLevels) \cap InCallWindow
       IN /\ calc.out = None <=> hits = {}
          /\ hits # {} =>
               LET first == CHOOSE k \in hits : \A j \in hits : k <= j
                   bar == price_data[first]
               IN /\ calc.out[1].exit_time = bar.ts
                  /\ calc.out[1].exit_time > calc.args[2]
                  /\ calc.out[1].exit_type =
                       (IF CrossesStop(bar, CallLevels) THEN "SL" ELSE "TP")

\* a trade was recorded by the run, and a direct call whose only crossing
\* bar is the third bar after entry_time was given a window of two bars: no
\* outcome
C23_Witness ==
  /\ Len(trades) > 0
  /\ WindowCall
  /\ calc.args[7] = 2
  /\ Cardinality(InCallWindow) = 2
  /\ Crossings(CallLevels) # {}
  /\ Crossings(CallLevels) \cap InCallWindow = {}
  /\ calc.out = None

\* |x - y| <= 2^(3 - FloatBits) for floats x and y: the two agree to within
\* the rounding errors of a handful of operations on values of size <= 2
WithinRounding(x, y) ==
  Abs(x[1] * y[2] - y[1] * x[2]) * Pow2(FloatBits - 3) <= x[2] * y[2]

\* C24 as stated: for every non-empty trade list the expectancy equals
\* avg_r_per_trade; the two reported metrics never differ.
C24_ExpectancyIsAvgR ==
  MetricsInput => calc.out.expectancy = calc.out.avg_r_per_trade

\* C24, amended: for every non-empty trade list, gross_profit - gross_loss
\* is total_r and avg_loss is gross_loss over the count of all non-winning
\* trades, so the expectancy is total_r / total_trades in exact arithmetic;
\* as computed, in rounded float operations, expectancy and avg_r_per_trade
\* agree to within rounding error, and are equal when no trade or every
\* trade is a winner.
C24_ExpectancyNearAvgR ==
  MetricsInput =>
    LET n == Len(InputRs)
        wins == Len(Positive(InputRs))
        gross_profit == SumSeq(Positive(InputRs))
        gross_loss == Abs(SumSeq(Negative(InputRs)))
    IN /\ gross_profit - gross_loss = calc.out.total_r
       /\ calc.out.avg_r_per_trade = FDiv(calc.out.total_r, RScale * n)
       /\ n > wins => calc.out.avg_loss = FDiv(gross_loss, RScale * (n - wins))
       /\ WithinRounding(calc.out.expectancy, calc.out.avg_r_per_trade)
       /\ wins \in {0, n} =>
            calc.out.expectancy = calc.out.avg_r_per_trade

\* two stopped trades and a winner at the default target: avg_r_per_trade
\* is 0, the expectancy is a rounding error away from it
C24_Witness ==
  /\ MetricsInput
  /\ InputRs = <<-RScale, -RScale, reward_risk_ratio * RScale>>
  /\ calc.out.avg_r_per_trade = <<0, 1>>
  /\ calc.out.expectancy # <<0, 1>>
  /\ WithinRounding(calc.out.expectancy, calc.out.avg_r_per_trade)

\* ------------------------------------------------------------------------
\* Snapshots without a volatility
\* ------------------------------------------------------------------------
\* 'garch' series whose latest record has no 'vol' field: the only record,
\* or a record after one that has the field
NoVolContexts ==
  { [n \in {"garch"} |-> <<Snap(TickTime(1), NoFields)>>],
    [n \in {"garch"} |-> <<Snap(TickTime(0), WithVol(20)),
                           Snap(TickTime(1), NoFields)>>] }

\* an engine with an oracle and a cooldown, given any of these series
InitNoVol ==
  /\ pc = "idle"
  /\ runs = 0
  /\ cooldown_hours = TickHours
  /\ end_date \in EndDateChoices
  /\ confirmation = "Oracle"
  /\ price_data \in WindowPrices
  /\ context_data \in NoVolContexts
  /\ equity = 0
  /\ last_trade_time = None
  /\ trades = <<>>
  /\ equity_curve = <<>>
  /\ filter_stats = <<>>
  /\ sig_count = 0
  /\ order = "sorted"
  /\ last = NoEvent
  /\ calc = NoCalc
  /\ replay = NoReplay

SpecNoVol == InitNoVol /\ [][Next]_vars

\* the latest 'garch' record at or before t exists and has no 'vol' field
NoVolAt(t) ==
  /\ ~NoGarchAt(t)
  /\ "vol" \notin DOMAIN LatestAtOrBefore(context_data["garch"], t).fields

\* C25: when the latest 'garch' snapshot at or before signal_time exists
\* but has no 'vol' field, the signal is not rejected by the context gate,
\* and its trade is placed with the stop of volatility 30 (the MEDIUM
\* regime: stop sl_med away, target twice as far) and records 30 as its
\* garch_vol.
C25_MissingVolDefault ==
  InRun =>
    /\ last.outcome = "no_context" => ~NoVolAt(last.signal_time)
    /\ \A i \in 1..Len(trades) :
         NoVolAt(trades[i].signal_time) =>
           /\ trades[i].garch_vol = 30
           /\ Abs(trades[i].entry_price - trades[i].sl_price) = 250
           /\ Abs(trades[i].tp_price - trades[i].entry_price) = 500

====
